---- MODULE Spec2Model ----
(***************************************************************************)
(* State machine of the Steam/Discord game bot (src/run.py): the three     *)
(* SQLite tables Users, Games and UserGames behind the one shared          *)
(* connection, the slash-command handlers that read and write them, and    *)
(* the handlers suspended at an awaited send.                              *)
(*                                                                         *)
(* Every handler is a coroutine run by the event loop as its own task.     *)
(* The HTTP calls (requests.get) and the sqlite3 calls block the loop, so  *)
(* the code between two awaits runs as one step; a handler gives up the    *)
(* loop only at `await ctx.send(...)`.  The one await that is followed by  *)
(* code touching the tables is the embed send of _linksteam (line 336),    *)
(* which sits between the committed INSERT INTO Users and the call of      *)
(* update_owned_games.                                                     *)
(*                                                                         *)
(* Text (Steam ids, game tokens, game names) is a sequence of one-character*)
(* strings, so that isnumeric, startswith, int() and LIKE are computed.    *)
(***************************************************************************)
EXTENDS Integers, Sequences, FiniteSets, TLC

\* ---------------------------------------------------------------- bounds
MaxMember == 2      \* Discord members issuing commands
MaxApp == 2         \* app ids known to the provider
MaxOwned == 2       \* longest owned-games list the provider returns
MaxPending == 1     \* _linksteam handlers suspended at line 336 at a time

Members == 1..MaxMember
AppIds == 1..MaxApp

\* ------------------------------------------------------------------ text
Digits == {"0", "1", "2", "3", "4", "5", "6", "7", "8", "9"}

DigitVal(c) ==
    CASE c = "0" -> 0 [] c = "1" -> 1 [] c = "2" -> 2 [] c = "3" -> 3
      [] c = "4" -> 4 [] c = "5" -> 5 [] c = "6" -> 6 [] c = "7" -> 7
      [] c = "8" -> 8 [] c = "9" -> 9

DigitChar(n) ==
    CASE n = 0 -> "0" [] n = 1 -> "1" [] n = 2 -> "2" [] n = 3 -> "3"
      [] n = 4 -> "4" [] n = 5 -> "5" [] n = 6 -> "6" [] n = 7 -> "7"
      [] n = 8 -> "8" [] n = 9 -> "9"

\* str.isnumeric / str.isdigit on ASCII text: non-empty and all digits.
isnumeric(s) == Len(s) > 0 /\ \A i \in 1..Len(s) : s[i] \in Digits

\* str.startswith
startswith(s, p) == Len(s) >= Len(p) /\ SubSeq(s, 1, Len(p)) = p

\* int(text) of an all-digit text; also SQLite's INTEGER affinity on it.
RECURSIVE ToInt(_)
ToInt(s) ==
    IF s = <<>> THEN 0
    ELSE 10 * ToInt(SubSeq(s, 1, Len(s) - 1)) + DigitVal(s[Len(s)])

\* str(n) of a natural number.
RECURSIVE Str(_)
Str(n) ==
    IF n < 10 THEN <<DigitChar(n)>>
    ELSE Str(n \div 10) \o <<DigitChar(n % 10)>>

\* ASCII case folding, as SQLite's LIKE applies it.
Lower(c) == CASE c = "A" -> "a" [] c = "B" -> "b" [] OTHER -> c

LowerText(s) == [i \in 1..Len(s) |-> Lower(s[i])]

\* name LIKE '%' || token || '%'  (the token holds no % or _ here).
Like(name, token) ==
    \E i \in 1..(Len(name) - Len(token) + 1) :
        LowerText(SubSeq(name, i, i + Len(token) - 1)) = LowerText(token)

\* ---------------------------------------------------------------- inputs
\* The prefix _linksteam requires of a Steam ID64.
SteamPrefix == <<"7", "6", "5", "6", "1", "1", "9">>

ValidSteamIds == {SteamPrefix \o <<DigitChar(m)>> : m \in Members}

\* What a member may type as steam_id: well-formed ids, a numeric text
\* without the prefix, a prefixed text that is not numeric, the empty text.
SteamIdInputs ==
    ValidSteamIds \cup {<<"1", "2">>, SteamPrefix \o <<"x">>, <<>>}

Names == {<<"a">>, <<"A", "b">>}

OwnedEntries == [appid : AppIds, name : Names]

RECURSIVE SeqsUpTo(_, _)
SeqsUpTo(S, n) ==
    IF n = 0 THEN {<<>>}
    ELSE LET shorter == SeqsUpTo(S, n - 1)
         IN  shorter \cup {Append(q, x) : q \in {r \in shorter : Len(r) = n - 1}, x \in S}

\* The provider's answer to GetOwnedGames: the request raised
\* (ok = FALSE), or it returned a list of games.
RequestFailed == [ok |-> FALSE, games |-> <<>>]

OwnedResponses ==
    {RequestFailed} \cup {[ok |-> TRUE, games |-> q] : q \in SeqsUpTo(OwnedEntries, MaxOwned)}

\* What a member may type as a game: an app id or a piece of a name.
GameTokens == {Str(a) : a \in AppIds} \cup {<<"a">>, <<"c", "2">>}

\* --------------------------------------------------------------- replies
MsgNone == ""
MsgInvalidSteamId64 == "Invalid Steam ID. Please enter a valid Steam ID64."
MsgInvalidSteamId == "Invalid Steam ID. Please enter a valid Steam ID."
MsgProfileFailed == "Failed to retrieve Steam profile information."
MsgLinkFailed == "Failed to link your Discord account to your Steam account."
MsgProfileLinked == "Steam Profile Linked"
MsgLinkedUpdated == "Successfully linked your Discord account to your Steam account and updated your game list."
MsgLinkedUpdateFailed == "Successfully linked your Discord account to your Steam account, but failed to update your game list."
MsgAlreadyLinked == "This Steam ID is already linked to a different Discord account."
MsgUnlinked == "Successfully unlinked Steam profile from your Discord account."
MsgUnlinkNotLinked == "Your Discord account is not linked to any Steam profile."
MsgUpdated == "Successfully updated your game list."
MsgUpdateFailed == "Failed to update your game list."
MsgUpdateNotLinked == "Your Discord account is not linked to any Steam account."
MsgMarkNotLinked == "You must link your Steam account before marking games as interested."
MsgInvalidAppId == "Invalid App ID."
MsgGameNotFound == "Game not found."
MsgMarked == "Successfully marked {game_name}."
MsgMarkNotOwned == "You don't own {game_name}."
MsgUnmarkNotLinked == "You must link your Steam account before removing games from your interests."
MsgNoGameFound == "No game found with the name or App ID '{game}'"
MsgUnmarked == "Game '{game_name}' has been unmarked."


\* users, games, userGames: the rows of the tables Users, Games, UserGames.
\* pending: the authors of the _linksteam handlers suspended at line 336.
\* reply: the text of the last message sent by a handler that writes the
\* tables (_linksteam, _unlinksteam, _updategames, _markinterest,
\* _removeinterest).
\* sent: the messages, in order, of the last handler that only reads them
\* (_searchgame, _listinterestedgames, _players, _sendmessage,
\* _sendgamemessage, _sendmultigamemessage).
VARIABLES users, games, userGames, pending, reply, sent

vars == <<users, games, userGames, pending, reply, sent>>

\* ---------------------------------------------------------------- tables
\* INSERT INTO Users (discord_id, steam_id): discord_id is the PRIMARY KEY,
\* steam_id is UNIQUE; a violation raises sqlite3.IntegrityError.
\* A faulty variant: the table without its two constraints.
InsertUsersUnchecked(u, m, sid) ==
    [ok |-> TRUE, users |-> u \cup {[discord_id |-> m, steam_id |-> sid]}]

InsertUsers(u, m, sid) ==
    IF \E r \in u : r.discord_id = m \/ r.steam_id = sid
    THEN [ok |-> FALSE, users |-> u]
    ELSE [ok |-> TRUE, users |-> u \cup {[discord_id |-> m, steam_id |-> sid]}]

\* A faulty variant: the link is not looked up.
IsLinkedAlways(u, m) == TRUE

\* SELECT steam_id FROM Users WHERE discord_id = ?  ... fetchone() is not None
IsLinked(u, m) == \E r \in u : r.discord_id = m

\* A faulty variant: the catalog insert is missing.
InsertGamesNothing(g, a, n) == g

\* A faulty variant: INSERT OR REPLACE, the reported name overwrites the row.
InsertOrReplaceGames(g, a, n) ==
    {r \in g : r.app_id # a} \cup {[app_id |-> a, name |-> n]}

\* INSERT OR IGNORE INTO Games (app_id, name): app_id is the PRIMARY KEY.
InsertOrIgnoreGames(g, a, n) ==
    IF \E r \in g : r.app_id = a THEN g
    ELSE g \cup {[app_id |-> a, name |-> n]}

\* INSERT OR IGNORE INTO UserGames (discord_id, app_id): the pair is the
\* PRIMARY KEY, interested takes its DEFAULT FALSE.
\* A faulty variant: INSERT OR REPLACE, the row is written anew with its
\* default flag.
InsertOrReplaceUserGames(ug, m, a) ==
    {r \in ug : ~(r.discord_id = m /\ r.app_id = a)}
        \cup {[discord_id |-> m, app_id |-> a, interested |-> FALSE]}

\* A faulty variant: the table without its primary key.
InsertUserGamesNoKey(ug, m, a) ==
    ug \cup {[discord_id |-> m, app_id |-> a, interested |-> FALSE]}

InsertOrIgnoreUserGames(ug, m, a) ==
    IF \E r \in ug : r.discord_id = m /\ r.app_id = a THEN ug
    ELSE ug \cup {[discord_id |-> m, app_id |-> a, interested |-> FALSE]}

\* DELETE FROM Users WHERE discord_id = ?
DeleteUsers(u, m) == {r \in u : r.discord_id # m}

\* DELETE FROM UserGames WHERE discord_id = ?
\* A faulty variant: the second DELETE is missing.
DeleteUserGamesNothing(ug, m) == ug

DeleteUserGames(ug, m) == {r \in ug : r.discord_id # m}

\* The three tables as one value: what a handler reads and what it leaves.
DB == [users |-> users, games |-> games, userGames |-> userGames]

\* ------------------------------------------------------ update_owned_games
\* A faulty variant: the loop stops after the first game of the list.
InsertOwnedFirst(owned, m, db) ==
    IF owned = <<>> THEN db
    ELSE [db EXCEPT !.games = InsertOrIgnoreGames(@, Head(owned).appid, Head(owned).name),
                    !.userGames = InsertOrIgnoreUserGames(@, m, Head(owned).appid)]

\* The loop over the provider's list (lines 242-264), then the commit.
RECURSIVE InsertOwned(_, _, _)
InsertOwned(owned, m, db) ==
    IF owned = <<>> THEN db
    ELSE InsertOwned(Tail(owned), m,
             [db EXCEPT !.games = InsertOrIgnoreGames(@, Head(owned).appid, Head(owned).name),
                        !.userGames = InsertOrIgnoreUserGames(@, m, Head(owned).appid)])

\* A faulty variant: the sync also drops the member's rows for games the
\* provider no longer lists.
update_owned_games_pruning(resp, m, db) ==
    IF ~resp.ok THEN [ret |-> FALSE, db |-> db]
    ELSE [ret |-> TRUE,
          db |-> InsertOwned(resp.games, m,
                     [db EXCEPT !.userGames =
                          {r \in @ : r.discord_id = m =>
                                         \E n \in 1..Len(resp.games) :
                                             resp.games[n].appid = r.app_id}])]

\* A faulty variant: the failed request is not noticed.
update_owned_games_unchecked(resp, m, db) ==
    [ret |-> TRUE, db |-> InsertOwned(resp.games, m, db)]

update_owned_games(resp, m, db) ==
    IF ~resp.ok THEN [ret |-> FALSE, db |-> db]
    ELSE [ret |-> TRUE, db |-> InsertOwned(resp.games, m, db)]

\* A faulty variant: the WHERE clause names the member only.
UpdateInterestedOfMember(ug, m, a, v) ==
    {IF r.discord_id = m THEN [r EXCEPT !.interested = v] ELSE r : r \in ug}

\* A faulty variant: the UPDATE inserts the row when the member has none.
UpdateInterestedUpsert(ug, m, a, v) ==
    {r \in ug : ~(r.discord_id = m /\ r.app_id = a)}
        \cup {[discord_id |-> m, app_id |-> a, interested |-> v]}

\* UPDATE UserGames SET interested = ? WHERE discord_id = ? AND app_id = ?
UpdateInterested(ug, m, a, v) ==
    {IF r.discord_id = m /\ r.app_id = a THEN [r EXCEPT !.interested = v] ELSE r : r \in ug}

\* A faulty variant: the ownership check is missing.
OwnsAlways(ug, m, a) == TRUE

\* SELECT * FROM UserGames WHERE discord_id = ? AND app_id = ?  ... fetchone()
Owns(ug, m, a) == \E r \in ug : r.discord_id = m /\ r.app_id = a

\* fetchone() over Games: app_id is the INTEGER PRIMARY KEY, hence the rowid,
\* and a scan returns the rows by ascending app_id.
FirstAppId(rows) == CHOOSE a \in {r.app_id : r \in rows} : \A r \in rows : a <= r.app_id

\* ------------------------------------------------ fuzz.partial_ratio
\* difflib.SequenceMatcher on short texts (no junk).  Offsets are 0-based
\* and ranges half-open, as in difflib.
RECURSIVE RunLen(_, _, _, _, _, _)
RunLen(a, b, i, j, ahi, bhi) ==
    IF i < ahi /\ j < bhi /\ a[i + 1] = b[j + 1]
    THEN 1 + RunLen(a, b, i + 1, j + 1, ahi, bhi)
    ELSE 0

\* The longest matching block; of those the one starting earliest in a,
\* then earliest in b; (alo, blo, 0) when nothing matches.
LongestOf(hits, alo, blo) ==
    IF hits = {} THEN [i |-> alo, j |-> blo, k |-> 0]
    ELSE CHOOSE c \in hits :
             \A d \in hits :
                 \/ c.k > d.k
                 \/ c.k = d.k /\ c.i < d.i
                 \/ c.k = d.k /\ c.i = d.i /\ c.j <= d.j

find_longest_match(a, b, alo, ahi, blo, bhi) ==
    LongestOf({c \in {[i |-> i, j |-> j, k |-> RunLen(a, b, i, j, ahi, bhi)] :
                          i \in alo..(ahi - 1), j \in blo..(bhi - 1)} : c.k > 0},
              alo, blo)

\* The blocks left of the longest match x, x, the blocks right of it.
RECURSIVE matching_blocks(_, _, _, _, _, _)
RECURSIVE blocks_around(_, _, _, _, _, _, _)
blocks_around(x, a, b, alo, ahi, blo, bhi) ==
    IF x.k = 0 THEN <<>>
    ELSE (IF alo < x.i /\ blo < x.j
          THEN matching_blocks(a, b, alo, x.i, blo, x.j) ELSE <<>>)
         \o <<x>> \o
         (IF x.i + x.k < ahi /\ x.j + x.k < bhi
          THEN matching_blocks(a, b, x.i + x.k, ahi, x.j + x.k, bhi) ELSE <<>>)

matching_blocks(a, b, alo, ahi, blo, bhi) ==
    blocks_around(find_longest_match(a, b, alo, ahi, blo, bhi), a, b, alo, ahi, blo, bhi)

\* get_matching_blocks(): the blocks and the closing (len(a), len(b), 0).
get_matching_blocks(a, b) ==
    matching_blocks(a, b, 0, Len(a), 0, Len(b)) \o <<[i |-> Len(a), j |-> Len(b), k |-> 0]>>

RECURSIVE SumK(_)
SumK(blocks) == IF blocks = <<>> THEN 0 ELSE Head(blocks).k + SumK(Tail(blocks))

\* int(round(100 * ratio())), ratio() = 2.0 * matches / (len(a) + len(b)),
\* rounded half to even.
Round100(matches, t) ==
    IF t = 0 THEN 100
    ELSE LET n == 200 * matches
             q == n \div t
             r == n % t
         IN  IF 2 * r < t THEN q
             ELSE IF 2 * r > t THEN q + 1
             ELSE IF q % 2 = 0 THEN q ELSE q + 1

ratio100(a, b) == Round100(SumK(get_matching_blocks(a, b)), Len(a) + Len(b))

Max(S) == CHOOSE x \in S : \A y \in S : y <= x

\* fuzz.partial_ratio(s1, s2): the best ratio of the shorter text against
\* the windows of the longer one that the matching blocks line up; 0 for
\* an empty text, 100 for equal texts.
Window(shorter, longer, x) ==
    LET long_start == IF x.j - x.i > 0 THEN x.j - x.i ELSE 0
        long_end == IF long_start + Len(shorter) < Len(longer)
                    THEN long_start + Len(shorter) ELSE Len(longer)
    IN  SubSeq(longer, long_start + 1, long_end)

BestWindow(shorter, longer, blocks) ==
    Max({ratio100(shorter, Window(shorter, longer, blocks[n])) : n \in 1..Len(blocks)})

partial_ratio(s1, s2) ==
    IF s1 = s2 THEN 100
    ELSE IF Len(s1) = 0 \/ Len(s2) = 0 THEN 0
    ELSE IF Len(s1) <= Len(s2) THEN BestWindow(s1, s2, get_matching_blocks(s1, s2))
    ELSE BestWindow(s2, s1, get_matching_blocks(s2, s1))

\* ---------------------------------------------------------------- provider
\* get_game_info(app_id): the store's appdetails for str(app_id); has_data
\* is the provider's answer (FALSE: request failed or no data).
NoGameInfo == [found |-> FALSE, app_id |-> <<>>]

get_game_info(app_id, has_data) ==
    IF has_data THEN [found |-> TRUE, app_id |-> app_id] ELSE NoGameInfo

\* One row of the store's search page: its data-ds-appid and its href,
\* split at '/' ("https:", "", host, "app", id, ...).
SearchRow(a) ==
    [ds_appid |-> Str(a),
     href |-> <<"https:", "", "store.steampowered.com", "app", Str(a), "">>]

\* The store's answer to a search: the request raised, or the rows found.
NoSearch == [ok |-> FALSE, rows |-> <<>>]

SearchResponses ==
    {NoSearch} \cup {[ok |-> TRUE, rows |-> q] : q \in SeqsUpTo({SearchRow(a) : a \in AppIds}, 2)}

\* matches.sort(key=score, reverse=True)[0]: the sort is stable, so of the
\* rows with the highest score the first in the provider's order is taken.
RECURSIVE Scores(_, _)
Scores(game_name, rows) ==
    IF rows = <<>> THEN <<>>
    ELSE <<partial_ratio(game_name, Head(rows).ds_appid)>> \o Scores(game_name, Tail(rows))

\* A faulty variant: of the rows with the highest score the last is taken.
LastBest(score) ==
    CHOOSE n \in 1..Len(score) :
        \A k \in 1..Len(score) : score[n] > score[k] \/ (score[n] = score[k] /\ n >= k)

First(score) ==
    CHOOSE n \in 1..Len(score) :
        \A k \in 1..Len(score) : score[n] > score[k] \/ (score[n] = score[k] /\ n <= k)

BestRow(game_name, rows) == rows[First(Scores(game_name, rows))]

\* search_steam_game(game_name): the local catalog first, then the store.
search_steam_game(game_name, g, search, has_data) ==
    LET local == {r \in g : Like(r.name, game_name)}
    IN  IF local # {} THEN get_game_info(Str(FirstAppId(local)), has_data)
        ELSE IF ~search.ok \/ search.rows = <<>> THEN NoGameInfo
        ELSE get_game_info(BestRow(game_name, search.rows).href[5], has_data)

\* --------------------------------------------------------------- handlers
\* A handler is a function of its arguments, the provider's answers and the
\* tables; it yields the text it sends and the tables it leaves.

\* A faulty variant: the INSERT comes before the provider's answers are looked at.
linksteam_insert_first(m, steam_id, valid, profile, db) ==
    IF ~isnumeric(steam_id) \/ ~startswith(steam_id, SteamPrefix)
    THEN [text |-> MsgInvalidSteamId64, db |-> db, suspend |-> FALSE]
    ELSE LET ins == InsertUsers(db.users, m, ToInt(steam_id))
         IN  IF ~valid
             THEN [text |-> MsgInvalidSteamId, db |-> [db EXCEPT !.users = ins.users],
                   suspend |-> FALSE]
             ELSE IF ~profile
             THEN [text |-> MsgProfileFailed, db |-> [db EXCEPT !.users = ins.users],
                   suspend |-> FALSE]
             ELSE IF ~ins.ok
             THEN [text |-> MsgLinkFailed, db |-> db, suspend |-> FALSE]
             ELSE [text |-> MsgProfileLinked, db |-> [db EXCEPT !.users = ins.users],
                   suspend |-> TRUE]

\* _linksteam, lines 294-336: the shape check, the provider's validation
\* and profile, the INSERT and its commit, up to the awaited embed send
\* (suspend).  `valid` and `profile` are the provider's answers.  The inner
\* `except sqlite3.Error` catches the IntegrityError of the INSERT, so the
\* outer `except sqlite3.IntegrityError` (MsgAlreadyLinked) never sees it.
linksteam(m, steam_id, valid, profile, db) ==
    IF ~isnumeric(steam_id) \/ ~startswith(steam_id, SteamPrefix)
    THEN [text |-> MsgInvalidSteamId64, db |-> db, suspend |-> FALSE]
    ELSE IF ~valid
    THEN [text |-> MsgInvalidSteamId, db |-> db, suspend |-> FALSE]
    ELSE IF ~profile
    THEN [text |-> MsgProfileFailed, db |-> db, suspend |-> FALSE]
    ELSE LET ins == InsertUsers(db.users, m, ToInt(steam_id))
         IN  IF ~ins.ok
             THEN [text |-> MsgLinkFailed, db |-> db, suspend |-> FALSE]
             ELSE [text |-> MsgProfileLinked, db |-> [db EXCEPT !.users = ins.users],
                   suspend |-> TRUE]

\* _linksteam, lines 338-341: resumed after the embed send, the handler
\* syncs the games of ctx.author.id, whatever has become of Users meanwhile.
linksteam_sync(m, resp, db) ==
    LET r == update_owned_games(resp, m, db)
    IN  [text |-> IF r.ret THEN MsgLinkedUpdated ELSE MsgLinkedUpdateFailed, db |-> r.db]

\* _unlinksteam: both DELETEs and the commit come before the one send.
unlinksteam(m, db) ==
    IF IsLinked(db.users, m)
    THEN [text |-> MsgUnlinked,
          db |-> [db EXCEPT !.users = DeleteUsers(@, m),
                            !.userGames = DeleteUserGames(@, m)]]
    ELSE [text |-> MsgUnlinkNotLinked, db |-> db]

\* _updategames
updategames(m, resp, db) ==
    IF IsLinked(db.users, m)
    THEN LET r == update_owned_games(resp, m, db)
         IN  [text |-> IF r.ret THEN MsgUpdated ELSE MsgUpdateFailed, db |-> r.db]
    ELSE [text |-> MsgUpdateNotLinked, db |-> db]

\* The game a token of _markinterest resolves to: get_game_info for a
\* numeric token, search_steam_game otherwise.
mark_resolve(game, g, search, has_data) ==
    IF isnumeric(game) THEN get_game_info(game, has_data)
    ELSE search_steam_game(game, g, search, has_data)

\* _markinterest
\* _markinterest past the resolution of the token, lines 440-468.
mark_update(m, game, game_info, db) ==
    IF ~game_info.found
    THEN [text |-> IF isnumeric(game) THEN MsgInvalidAppId ELSE MsgGameNotFound, db |-> db]
    ELSE IF Owns(db.userGames, m, ToInt(game_info.app_id))
    THEN [text |-> MsgMarked,
          db |-> [db EXCEPT !.userGames = UpdateInterested(@, m, ToInt(game_info.app_id), TRUE)]]
    ELSE [text |-> MsgMarkNotOwned, db |-> db]

markinterest(m, game, search, has_data, db) ==
    IF ~IsLinked(db.users, m) THEN [text |-> MsgMarkNotLinked, db |-> db]
    ELSE mark_update(m, game, mark_resolve(game, db.games, search, has_data), db)

\* _removeinterest: a numeric token is taken as the app id whether or not
\* Games has it; a name is looked up by equality.  None stands for
\* app_id = None.
None == -1

remove_resolve(game, g) ==
    IF isnumeric(game) THEN ToInt(game)
    ELSE LET named == {r \in g : r.name = game}
         IN  IF named = {} THEN None ELSE FirstAppId(named)

removeinterest(m, game, db) ==
    IF ~IsLinked(db.users, m) THEN [text |-> MsgUnmarkNotLinked, db |-> db]
    ELSE LET app_id == remove_resolve(game, db.games)
         IN  IF app_id = None THEN [text |-> MsgNoGameFound, db |-> db]
             ELSE [text |-> MsgUnmarked,
                   db |-> [db EXCEPT !.userGames = UpdateInterested(@, m, app_id, FALSE)]]

\* ------------------------------------------------------------------- Init
Init ==
    /\ users = {}
    /\ games = {}
    /\ userGames = {}
    /\ pending = <<>>
    /\ reply = MsgNone
    /\ sent = <<>>

\* ---------------------------------------------------------------- actions
\* One action per stretch of a handler between two awaits.
Commit(db) ==
    /\ users' = db.users
    /\ games' = db.games
    /\ userGames' = db.userGames

LinkSteam(m, steam_id, valid, profile) ==
    LET r == linksteam(m, steam_id, valid, profile, DB)
    IN  /\ r.suspend => Len(pending) < MaxPending
        /\ Commit(r.db)
        /\ pending' = IF r.suspend THEN Append(pending, m) ELSE pending
        /\ reply' = r.text
        /\ UNCHANGED sent

LinkSteamResume(i, resp) ==
    LET r == linksteam_sync(pending[i], resp, DB)
    IN  /\ Commit(r.db)
        /\ pending' = SubSeq(pending, 1, i - 1) \o SubSeq(pending, i + 1, Len(pending))
        /\ reply' = r.text
        /\ UNCHANGED sent

UnlinkSteam(m) ==
    LET r == unlinksteam(m, DB)
    IN  Commit(r.db) /\ reply' = r.text /\ UNCHANGED <<pending, sent>>

UpdateGames(m, resp) ==
    LET r == updategames(m, resp, DB)
    IN  Commit(r.db) /\ reply' = r.text /\ UNCHANGED <<pending, sent>>

MarkInterest(m, game, search, has_data) ==
    LET r == markinterest(m, game, search, has_data, DB)
    IN  Commit(r.db) /\ reply' = r.text /\ UNCHANGED <<pending, sent>>

RemoveInterest(m, game) ==
    LET r == removeinterest(m, game, DB)
    IN  Commit(r.db) /\ reply' = r.text /\ UNCHANGED <<pending, sent>>

\* The provider's answers are drawn where the handler asks for them: the
\* Steam id is validated only past the shape check, the profile is fetched
\* only for a validated id, a game is resolved only for a linked member and
\* the store is searched only for a name the catalog does not hold.
ValidationAnswers(s) ==
    IF isnumeric(s) /\ startswith(s, SteamPrefix) THEN BOOLEAN ELSE {FALSE}

ProfileAnswers(valid) == IF valid THEN BOOLEAN ELSE {FALSE}

StoreAnswers(m, db) == IF IsLinked(db.users, m) THEN BOOLEAN ELSE {FALSE}

SearchAnswers(m, game, db) ==
    IF IsLinked(db.users, m) /\ ~isnumeric(game) /\ \A r \in db.games : ~Like(r.name, game)
    THEN SearchResponses ELSE {NoSearch}

Next ==
    \/ \E m \in Members, s \in SteamIdInputs :
           \E valid \in ValidationAnswers(s) :
               \E profile \in ProfileAnswers(valid) : LinkSteam(m, s, valid, profile)
    \/ \E i \in 1..Len(pending), resp \in OwnedResponses : LinkSteamResume(i, resp)
    \/ \E m \in Members : UnlinkSteam(m)
    \/ \E m \in Members, resp \in OwnedResponses : UpdateGames(m, resp)
    \/ \E m \in Members, game \in GameTokens :
           \E search \in SearchAnswers(m, game, DB) :
               \E has_data \in StoreAnswers(m, DB) : MarkInterest(m, game, search, has_data)
    \/ \E m \in Members, game \in GameTokens : RemoveInterest(m, game)

Spec == Init /\ [][Next]_vars

\* =================================================== the reading handlers
\* The handlers below write no table.  They are run from tables the
\* writing handlers leave: a catalog with one name per app id and relation
\* rows of linked members for catalog apps, with any flags.
MsgNoGameInfo == "No game information found."
MsgGameEmbed == "embed: {game_info['name']}"
MsgGameEmbedWithMessage == "{message} embed: {game_info['name']}"

\* What a resolution consults, in order.
AskGames == "SELECT ... FROM Games"
AskSearch == "store.steampowered.com/search/"
AskAppDetails == "store.steampowered.com/api/appdetails"

Message(text, arg) == [text |-> text, arg |-> arg]

\* The sources search_steam_game consults: the catalog, then appdetails
\* for a catalog hit, else the store search and appdetails for its best row.
search_steam_game_asks(game_name, g, search) ==
    <<AskGames>> \o
    (IF \E r \in g : Like(r.name, game_name) THEN <<AskAppDetails>>
     ELSE <<AskSearch>> \o
          (IF search.ok /\ search.rows # <<>> THEN <<AskAppDetails>> ELSE <<>>))

\* The sources the token resolution of _markinterest consults (432-446).
mark_asks(game, g, search) ==
    IF isnumeric(game) THEN <<AskAppDetails>> ELSE search_steam_game_asks(game, g, search)

\* _searchgame: every token, digits or not, goes to search_steam_game.
searchgame(game_name, search, has_data, db) ==
    LET game_info == search_steam_game(game_name, db.games, search, has_data)
    IN  [sent |-> IF game_info.found
                  THEN <<Message(MsgGameEmbed, <<ToInt(game_info.app_id)>>)>>
                  ELSE <<Message(MsgNoGameInfo, <<>>)>>,
         asks |-> search_steam_game_asks(game_name, db.games, search)]

\* _sendgamemessage: a token of digits is the app id and only appdetails is
\* asked; a name goes to search_steam_game.  With app_id set and no game
\* info the handler sends MsgNoGameInfo.
sendgamemessage(game, search, has_data, db) ==
    IF isnumeric(game)
    THEN [sent |-> IF get_game_info(game, has_data).found
                   THEN <<Message(MsgGameEmbedWithMessage, <<ToInt(game)>>)>>
                   ELSE <<Message(MsgNoGameInfo, <<>>)>>,
          asks |-> <<AskAppDetails>>]
    ELSE LET game_info == search_steam_game(game, db.games, search, has_data)
         IN  [sent |-> IF game_info.found
                       THEN <<Message(MsgGameEmbedWithMessage, <<ToInt(game_info.app_id)>>)>>
                       ELSE <<Message(MsgNoGameFound, <<>>)>>,
              asks |-> search_steam_game_asks(game, db.games, search)]

\* The answers of the store a resolution of `game` may get: the search is
\* asked only for a name the catalog does not hold.
QuerySearchAnswers(game, db) ==
    IF \A r \in db.games : ~Like(r.name, game) THEN SearchResponses ELSE {NoSearch}

\* A faulty variant: a game the resolution finds is stored in Games.
search_steam_game_caching(game_info, db) ==
    IF game_info.found
    THEN [db EXCEPT !.games = InsertOrIgnoreGames(@, ToInt(game_info.app_id), <<"a">>)]
    ELSE db

\* The tables after search_steam_game / get_game_info returned game_info:
\* the two functions run one SELECT and requests to the store, no INSERT,
\* UPDATE or DELETE, and their callers here write nothing either.
search_steam_game_tables(game_info, db) == db

SearchGame(game, search, has_data) ==
    /\ sent' = searchgame(game, search, has_data, DB).sent
    /\ Commit(search_steam_game_tables(
                  search_steam_game(game, games, search, has_data), DB))
    /\ UNCHANGED <<pending, reply>>

SendGameMessage(game, search, has_data) ==
    /\ sent' = sendgamemessage(game, search, has_data, DB).sent
    /\ Commit(search_steam_game_tables(
                  mark_resolve(game, games, search, has_data), DB))
    /\ UNCHANGED <<pending, reply>>

\* ---------------------------------------------------------------- _players
MsgNoOwners == "No players in this server own the game '{game_name}'"
MsgPlayersEmbed == "embed: {game_name} Players {member_names}"

\* SELECT discord_id, interested FROM UserGames WHERE app_id = ?
OwnersOf(ug, app_id) == {r \in ug : r.app_id = app_id}

\* _players: the token is resolved against the catalog as in
\* _removeinterest (lines 576-588 repeat 499-511), then every owner row is
\* resolved with bot.fetch_user.  `known` are the users Discord finds; for
\* any other id fetch_user raises discord.NotFound, which the handler does
\* not catch (its except clause names sqlite3.Error only): the handler ends
\* there and sends nothing (raised).  The guild is not consulted.
players(game, known, db) ==
    LET app_id == remove_resolve(game, db.games)
        owners == OwnersOf(db.userGames, app_id)
    IN  IF app_id = None
        THEN [sent |-> <<Message(MsgNoGameFound, <<>>)>>, raised |-> FALSE]
        ELSE IF owners = {}
        THEN [sent |-> <<Message(MsgNoOwners, <<>>)>>, raised |-> FALSE]
        ELSE IF \E r \in owners : r.discord_id \notin known
        THEN [sent |-> <<>>, raised |-> TRUE]
        ELSE [sent |-> <<Message(MsgPlayersEmbed,
                                 <<{[discord_id |-> r.discord_id, interested |-> r.interested] :
                                        r \in owners}>>)>>,
              raised |-> FALSE]

Players(game, known) ==
    /\ sent' = players(game, known, DB).sent
    /\ UNCHANGED <<users, games, userGames, pending, reply>>

\* ------------------------------------------------------------ _sendmessage
MsgNoPlayersForGame == "No players found for the game '{game_name}'"
MsgNoPlayersCriteria == "No players found for the specified criteria."
MsgSending == "Sending message to {len(player_list)} players..."
MsgDelivery == "{mention_list} Message from {ctx.author.mention}: {message}"

\* A faulty variant: the guild is not asked and interest_only is ignored.
player_list_all(owners, guild, interest_only) == {r.discord_id : r \in owners}

\* The loop of lines 683-691: ctx.guild.fetch_member raises
\* discord.NotFound for an id that is not in the guild, and the row is
\* passed over; with interest_only a row that is not interested is too.
player_list(owners, guild, interest_only) ==
    {r.discord_id : r \in {o \in owners : o.discord_id \in guild
                                           /\ (interest_only => o.interested)}}

\* _sendmessage: the token is resolved against the catalog (lines 653-665
\* repeat 499-511); `guild` are the members of the invoking server.
sendmessage(game, interest_only, guild, db) ==
    LET app_id == remove_resolve(game, db.games)
        game_players == OwnersOf(db.userGames, app_id)
        to == player_list(game_players, guild, interest_only)
    IN  IF app_id = None THEN <<Message(MsgNoGameFound, <<>>)>>
        ELSE IF game_players = {} THEN <<Message(MsgNoPlayersForGame, <<>>)>>
        ELSE IF to = {} THEN <<Message(MsgNoPlayersCriteria, <<>>)>>
        ELSE <<Message(MsgSending, <<Cardinality(to)>>), Message(MsgDelivery, <<to>>)>>

SendMessage(game, interest_only, guild) ==
    /\ sent' = sendmessage(game, interest_only, guild, DB)
    /\ UNCHANGED <<users, games, userGames, pending, reply>>

\* --------------------------------------------------- _sendmultigamemessage
MaxTokens == 2

MsgAnnouncement == "embed: {title} {message} Event Link {event_link}"
MsgMultiGameEmbed == "embed: {game_name} Steam Store Page"

\* games.split(","): the pieces between the commas, empty ones included.
RECURSIVE split(_)
split(s) ==
    IF \A i \in 1..Len(s) : s[i] # ","
    THEN <<s>>
    ELSE LET i == CHOOSE k \in 1..Len(s) : s[k] = "," /\ \A j \in 1..(k - 1) : s[j] # ","
         IN  <<SubSeq(s, 1, i - 1)>> \o split(SubSeq(s, i + 1, Len(s)))

\* The `games` arguments: up to MaxTokens tokens with commas between them;
\* the empty argument splits into one empty token.
RECURSIVE JoinComma(_)
JoinComma(q) ==
    IF q = <<>> THEN <<>>
    ELSE IF Len(q) = 1 THEN q[1]
    ELSE q[1] \o <<",">> \o JoinComma(Tail(q))

GamesInputs == {JoinComma(q) : q \in SeqsUpTo(GameTokens, MaxTokens)}

\* SELECT name FROM Games WHERE app_id = ?  (None: no row)
NameOf(g, app_id) ==
    IF \E r \in g : r.app_id = app_id
    THEN (CHOOSE r \in g : r.app_id = app_id).name
    ELSE <<>>

\* What one turn of the loop (lines 845-877) sends at once (report) and
\* what it appends to game_embeds (embed).  `store` are the app ids for
\* which appdetails has data.  A token of digits that is not in the catalog
\* has app_id set and game_name None: the turn sends and appends nothing.
multi_turn(game, store, g) ==
    LET app_id == remove_resolve(game, g)
    IN  IF app_id = None
        THEN [report |-> <<Message(MsgNoGameFound, <<>>)>>, embed |-> <<>>]
        ELSE IF NameOf(g, app_id) = <<>>
        THEN [report |-> <<>>, embed |-> <<>>]
        ELSE IF get_game_info(Str(app_id), app_id \in store).found
        THEN [report |-> <<>>, embed |-> <<Message(MsgMultiGameEmbed, <<app_id>>)>>]
        ELSE [report |-> <<Message(MsgNoGameInfo, <<>>)>>, embed |-> <<>>]

RECURSIVE multi_loop(_, _, _)
multi_loop(game_list, store, g) ==
    IF game_list = <<>> THEN [report |-> <<>>, embed |-> <<>>]
    ELSE [report |-> multi_turn(Head(game_list), store, g).report
                         \o multi_loop(Tail(game_list), store, g).report,
          embed |-> multi_turn(Head(game_list), store, g).embed
                        \o multi_loop(Tail(game_list), store, g).embed]

\* _sendmultigamemessage: the reports go out during the loop, then the
\* announcement (event_embed is set on both branches), then the embeds.
sendmultigamemessage(input, store, db) ==
    multi_loop(split(input), store, db.games).report
        \o <<Message(MsgAnnouncement, <<>>)>>
        \o multi_loop(split(input), store, db.games).embed

SendMultiGameMessage(input, store) ==
    /\ sent' = sendmultigamemessage(input, store, DB)
    /\ UNCHANGED <<users, games, userGames, pending, reply>>

\* ---------------------------------------------------- _listinterestedgames
\* The length from which a listing is cut into pieces (2000 in the code).
ChunkLimit == 28

MsgNoInterested == "You've not marked any games as interested."
MsgListing == "{interested_str}"

\* "**Interested Games**:\n"
ListingHeader ==
    <<"*", "*", "I", "n", "t", "e", "r", "e", "s", "t", "e", "d", " ",
      "G", "a", "m", "e", "s", "*", "*", ":", "\n">>

\* The three code points the source file holds before each name, and the
\* blank after them.
ListingBullet == <<"U+00E2", "U+20AC", "U+00A2", " ">>

\* "\n".join(f"... {game_name}" for game_name in interested_games)
RECURSIVE JoinLines(_)
JoinLines(names) ==
    IF names = <<>> THEN <<>>
    ELSE IF Len(names) = 1 THEN ListingBullet \o names[1]
    ELSE ListingBullet \o names[1] \o <<"\n">> \o JoinLines(Tail(names))

interested_str(names) == ListingHeader \o JoinLines(names)

\* SELECT Games.name FROM UserGames INNER JOIN Games ... WHERE discord_id = ?
\* AND interested = 1: the app ids of the rows found.
InterestedApps(m, db) ==
    {r.app_id : r \in {x \in db.userGames : x.discord_id = m /\ x.interested
                                             /\ \E g \in db.games : g.app_id = x.app_id}}

\* The orders in which fetchall() may return them (the query has no ORDER BY).
Orders(S) ==
    {q \in SeqsUpTo(S, Cardinality(S)) :
        Len(q) = Cardinality(S) /\ \A i \in 1..Len(q), j \in 1..Len(q) : q[i] = q[j] => i = j}

\* A faulty variant: each piece is one unit short.
RECURSIVE slices_short(_, _)
slices_short(s, limit) ==
    IF s = <<>> THEN <<>>
    ELSE IF Len(s) <= limit THEN <<SubSeq(s, 1, Len(s) - 1)>>
    ELSE <<SubSeq(s, 1, limit - 1)>> \o slices_short(SubSeq(s, limit + 1, Len(s)), limit)

\* [s[i:i + limit] for i in range(0, len(s), limit)]
RECURSIVE slices(_, _)
slices(s, limit) ==
    IF s = <<>> THEN <<>>
    ELSE IF Len(s) <= limit THEN <<s>>
    ELSE <<SubSeq(s, 1, limit)>> \o slices(SubSeq(s, limit + 1, Len(s)), limit)

\* Lines 554-558: a text longer than the limit goes out in slices, any
\* other text whole.
chunks(s, limit) == IF Len(s) > limit THEN slices(s, limit) ELSE <<s>>

\* _listinterestedgames; `order` is the order of the rows found.
listinterestedgames(m, order, db) ==
    IF order = <<>> THEN <<Message(MsgNoInterested, <<>>)>>
    ELSE LET pieces == chunks(interested_str([i \in 1..Len(order) |-> NameOf(db.games, order[i])]),
                              ChunkLimit)
         IN  [i \in 1..Len(pieces) |-> Message(MsgListing, pieces[i])]

ListInterestedGames(m, order) ==
    /\ sent' = listinterestedgames(m, order, DB)
    /\ UNCHANGED <<users, games, userGames, pending, reply>>

\* The tables the reading handlers start from.
\* None of them reads Users: every member is taken to be linked, each to
\* a Steam id of their own.
AllLinked ==
    {[discord_id |-> m, steam_id |-> ToInt(SteamPrefix \o <<DigitChar(m)>>)] : m \in Members}

Catalogs ==
    {g \in SUBSET [app_id : AppIds, name : Names] :
        \A r1 \in g, r2 \in g : r1.app_id = r2.app_id => r1 = r2}

Relations(u, g) ==
    {ug \in SUBSET [discord_id : {r.discord_id : r \in u}, app_id : {r.app_id : r \in g},
                    interested : BOOLEAN] :
        \A r1 \in ug, r2 \in ug :
            (r1.discord_id = r2.discord_id /\ r1.app_id = r2.app_id) => r1 = r2}

QueryInit ==
    /\ users = AllLinked
    /\ games \in Catalogs
    /\ userGames \in Relations(users, games)
    /\ pending = <<>>
    /\ reply = MsgNone
    /\ sent = <<>>

QueryNext ==
    \/ \E game \in GameTokens, has_data \in BOOLEAN :
           \E search \in QuerySearchAnswers(game, DB) : SearchGame(game, search, has_data)
    \/ \E game \in GameTokens, has_data \in BOOLEAN :
           \E search \in IF isnumeric(game) THEN {NoSearch} ELSE QuerySearchAnswers(game, DB) :
               SendGameMessage(game, search, has_data)
    \/ \E game \in GameTokens, known \in SUBSET Members : Players(game, known)
    \/ \E game \in GameTokens, interest_only \in BOOLEAN, guild \in SUBSET Members :
           SendMessage(game, interest_only, guild)
    \/ \E input \in GamesInputs, store \in SUBSET AppIds :
           SendMultiGameMessage(input, store)
    \/ \E m \in Members :
           \E order \in Orders(InterestedApps(m, DB)) : ListInterestedGames(m, order)

QuerySpec == QueryInit /\ [][QueryNext]_vars

\* ----------------------------------------------------------------- claims
RowsOf(ug, m) == {r \in ug : r.discord_id = m}

AppsOf(owned) == {owned[n].appid : n \in 1..Len(owned)}

\* C1: in every reachable state no two Users rows share a steam_id and no
\* two share a discord_id.
C1_LinkUnique ==
    \A r1 \in users, r2 \in users :
        (r1.steam_id = r2.steam_id \/ r1.discord_id = r2.discord_id) => r1 = r2

\* Two members are linked and a further link has just been refused.
C1_Witness == Cardinality(users) = 2 /\ reply = MsgLinkFailed

\* C2: each command runs to completion before the next is processed: while
\* a _linksteam handler stands between its committed insert and its sync,
\* the only step taken is that handler's own next step.
C2_RunToCompletion == [][pending # <<>> => Len(pending') < Len(pending)]_vars

\* C3: in every reachable state every UserGames row belongs to a member
\* who has a Users row.
C3_RelationHasLink == \A r \in userGames : IsLinked(users, r.discord_id)

\* C4: every /unlinksteam step of a linked member m removes m's Users row
\* and all of m's UserGames rows in that one step and leaves the other
\* members' rows and Games as they were; for a member without a link it
\* sends the not-linked text and changes no table.
C4_UnlinkAtomic ==
    [][\A m \in Members :
           UnlinkSteam(m) =>
               IF IsLinked(users, m)
               THEN /\ reply' = MsgUnlinked
                    /\ ~IsLinked(users', m)
                    /\ RowsOf(userGames', m) = {}
                    /\ users' = {r \in users : r.discord_id # m}
                    /\ userGames' = {r \in userGames : r.discord_id # m}
                    /\ games' = games
               ELSE /\ reply' = MsgUnlinkNotLinked
                    /\ users' = users /\ userGames' = userGames /\ games' = games]_vars

\* A member has just been unlinked while another member's link, rows and
\* the catalog are still there.
C4_Witness ==
    /\ reply = MsgUnlinked
    /\ Cardinality(users) = 1
    /\ userGames # {}
    /\ \A r \in userGames : IsLinked(users, r.discord_id)
    /\ Cardinality(games) = MaxApp

\* C5: a /linksteam that does not succeed leaves Users, Games and UserGames
\* unchanged: a Steam id of the wrong shape, one the provider does not
\* confirm, one linked to a different member, and a member already linked.
C5_LinkRefused(m, s, valid, profile) ==
    \/ ~isnumeric(s)
    \/ ~startswith(s, SteamPrefix)
    \/ ~valid
    \/ ~profile
    \/ \E r \in users : r.steam_id = ToInt(s) /\ r.discord_id # m
    \/ \E r \in users : r.discord_id = m

C5_FailedLinkNoChange ==
    \A m \in Members, s \in SteamIdInputs, valid \in BOOLEAN, profile \in BOOLEAN :
        C5_LinkRefused(m, s, valid, profile) =>
            LET r == linksteam(m, s, valid, profile, DB)
            IN  /\ r.db = DB
                /\ ~r.suspend
                /\ r.text \in {MsgInvalidSteamId64, MsgInvalidSteamId, MsgProfileFailed,
                               MsgLinkFailed}

\* A link has just been refused by the table's constraints while links and
\* relation rows exist.
C5_Witness == reply = MsgLinkFailed /\ users # {} /\ userGames # {}

\* C6: /linksteam with a Steam id linked to a different member answers
\* with the already-linked text, not with the text of a failed insert.
C6_ConflictReply ==
    \A m \in Members, s \in ValidSteamIds :
        (/\ \E r \in users : r.steam_id = ToInt(s) /\ r.discord_id # m
         /\ ~IsLinked(users, m))
            => linksteam(m, s, TRUE, TRUE, DB).text = MsgAlreadyLinked

\* C7: when the sync that follows a successful link succeeds with the owned
\* list L, the member has a Users row, every item of L is in Games and the
\* member's UserGames rows are exactly the items of L, none interested.
C7_LinkThenSync ==
    \A i \in 1..Len(pending), resp \in OwnedResponses :
        resp.ok =>
            LET m == pending[i]
                r == linksteam_sync(m, resp, DB)
            IN  /\ r.text = MsgLinkedUpdated
                /\ IsLinked(r.db.users, m)
                /\ \A a \in AppsOf(resp.games) : \E g \in r.db.games : g.app_id = a
                /\ RowsOf(r.db.userGames, m)
                       = {[discord_id |-> m, app_id |-> a, interested |-> FALSE] :
                              a \in AppsOf(resp.games)}

\* C8: when the provider call of the sync that follows the link insert
\* fails, the sync step removes no Users row (the link is not rolled back),
\* writes no UserGames row and the handler sends the linked-but-not-synced
\* text.
C8_SyncFailureKeepsLink ==
    \A i \in 1..Len(pending) :
        LET r == linksteam_sync(pending[i], RequestFailed, DB)
        IN  /\ r.db = DB
            /\ r.text = MsgLinkedUpdateFailed

\* The sync of a link has just failed; the link is there and no relation
\* row has been written.
C8_Witness == reply = MsgLinkedUpdateFailed /\ users # {} /\ userGames = {} /\ pending = <<>>

\* C9: a second update_owned_games with the same owned list leaves Games
\* and UserGames as the first left them: no flag changes and no
\* (discord_id, app_id) pair has two rows.
C9_SyncIdempotent ==
    \A m \in Members, resp \in OwnedResponses :
        LET once == update_owned_games(resp, m, DB)
            twice == update_owned_games(resp, m, once.db)
        IN  /\ twice.db = once.db
            /\ twice.ret = once.ret
            /\ \A r1 \in once.db.userGames, r2 \in once.db.userGames :
                   (r1.discord_id = r2.discord_id /\ r1.app_id = r2.app_id) => r1 = r2

\* A sync has just run over rows of which one is marked interested.
C9_Witness == reply = MsgUpdated /\ \E r \in userGames : r.interested

\* C10: /markinterest by a linked member who has no UserGames row for the
\* app the token resolves to sends the not-owned text, creates no row and
\* changes no flag.
C10_MarkNeedsOwnership ==
    \A m \in Members, game \in GameTokens :
        \A search \in SearchAnswers(m, game, DB), has_data \in StoreAnswers(m, DB) :
            LET game_info == mark_resolve(game, games, search, has_data)
            IN  (/\ IsLinked(users, m)
                 /\ game_info.found
                 /\ \A r \in userGames :
                        ~(r.discord_id = m /\ r.app_id = ToInt(game_info.app_id)))
                    => LET r == markinterest(m, game, search, has_data, DB)
                       IN  r.text = MsgMarkNotOwned /\ r.db = DB

\* A mark has just been refused for want of ownership while relation rows
\* exist.
C10_Witness == reply = MsgMarkNotOwned /\ userGames # {}

\* C11: /markinterest and /removeinterest by a member who has no Users row
\* send their not-linked text whatever the token and whatever the provider
\* would answer (no game is resolved), and change no table.
C11_FlagNeedsLink ==
    \A m \in Members, game \in GameTokens :
        (\A u \in users : u.discord_id # m) =>
            /\ \A search \in SearchResponses, has_data \in BOOLEAN :
                   markinterest(m, game, search, has_data, DB)
                       = [text |-> MsgMarkNotLinked, db |-> DB]
            /\ removeinterest(m, game, DB) = [text |-> MsgUnmarkNotLinked, db |-> DB]

\* An unmark has just been refused for want of a link while relation rows
\* and catalog rows exist.
C11_Witness == reply = MsgUnmarkNotLinked /\ userGames # {} /\ games # {}

\* C12: whenever /markinterest with a token marks a row of a linked member,
\* /removeinterest by that member with the same token leaves that row not
\* interested.
C12_MarkUnmarkRoundTrip ==
    \A m \in Members, game \in GameTokens :
        \A search \in SearchAnswers(m, game, DB), has_data \in StoreAnswers(m, DB) :
            LET marked == markinterest(m, game, search, has_data, DB)
                app_id == ToInt(mark_resolve(game, games, search, has_data).app_id)
            IN  marked.text = MsgMarked =>
                    \A r \in removeinterest(m, game, marked.db).db.userGames :
                        (r.discord_id = m /\ r.app_id = app_id) => ~r.interested

\* C13: whenever a command that resolves a game (/searchgame,
\* /markinterest, /sendgamemessage) is given a token of digits, the only
\* source it consults is the store's appdetails for that id: neither the
\* catalog nor the store search.
C13_NumericAsksDetailsOnly ==
    \A game \in GameTokens, search \in SearchResponses, has_data \in BOOLEAN :
        isnumeric(game) =>
            /\ mark_asks(game, games, search) = <<AskAppDetails>>
            /\ sendgamemessage(game, search, has_data, DB).asks = <<AskAppDetails>>
            /\ searchgame(game, search, has_data, DB).asks = <<AskAppDetails>>

\* C14: a Games row, once there, is in every later state with the same
\* name: no step deletes a catalog row or changes its name, a sync that
\* reports another name for the app id included.
C14_CatalogRowsStay == [][\A g \in games : g \in games']_vars

\* A sync has just run for an app that another member's sync had already
\* put into the catalog.
C14_Witness ==
    /\ reply = MsgUpdated
    /\ \E r1 \in userGames, r2 \in userGames :
           r1.app_id = r2.app_id /\ r1.discord_id # r2.discord_id

\* C15: /players skips every owner row whose member cannot be resolved and
\* still lists the remaining owners: an unresolvable member never makes
\* the command fail.
C15_PlayersSkipsUnresolved ==
    \A game \in GameTokens, known \in SUBSET Members :
        LET owners == OwnersOf(userGames, remove_resolve(game, games))
            r == players(game, known, DB)
        IN  owners # {} =>
                /\ ~r.raised
                /\ r.sent = <<Message(MsgPlayersEmbed,
                                      <<{[discord_id |-> o.discord_id, interested |-> o.interested] :
                                             o \in {x \in owners : x.discord_id \in known}}>>)>>

\* C16: /sendmessage for a game addresses exactly the members that have a
\* UserGames row for it, are in the invoking guild and, with
\* interest_only, are interested; ids the guild does not know are passed
\* over.  With at least one recipient the count notice is sent and then
\* exactly one combined delivery; with none no delivery is sent.
C16_SendToOwners ==
    \A game \in GameTokens, interest_only \in BOOLEAN, guild \in SUBSET Members :
        LET app_id == remove_resolve(game, games)
            to == {m \in guild :
                       \E r \in userGames : /\ r.discord_id = m
                                            /\ r.app_id = app_id
                                            /\ (interest_only => r.interested)}
            out == sendmessage(game, interest_only, guild, DB)
        IN  app_id # None =>
                IF to # {}
                THEN out = <<Message(MsgSending, <<Cardinality(to)>>),
                             Message(MsgDelivery, <<to>>)>>
                ELSE /\ Len(out) = 1
                     /\ out[1].text \in {MsgNoPlayersForGame, MsgNoPlayersCriteria}

\* A delivery has just gone to some of a game's owners and not to all.
C16_Witness ==
    /\ Len(sent) = 2
    /\ sent[1].text = MsgSending
    /\ sent[2].text = MsgDelivery
    /\ \E a \in AppIds :
           /\ sent[2].arg[1] \subseteq {r.discord_id : r \in OwnersOf(userGames, a)}
           /\ sent[2].arg[1] # {r.discord_id : r \in OwnersOf(userGames, a)}

\* C17: /sendmultigamemessage goes through every token between the commas:
\* a token that yields no game embed is reported, and what is sent ends
\* with exactly one announcement followed by the game embeds, so that
\* every token has either its report or its embed.
C17_IsReport(msg) == msg.text \in {MsgNoGameFound, MsgNoGameInfo}

C17_IsEmbed(msg) == msg.text = MsgMultiGameEmbed

C17_IsAnnouncement(msg) == msg.text = MsgAnnouncement

C17_EveryTokenAnswered ==
    \A input \in GamesInputs, store \in SUBSET AppIds :
        LET out == sendmultigamemessage(input, store, DB)
            reports == SelectSeq(out, C17_IsReport)
            embeds == SelectSeq(out, C17_IsEmbed)
        IN  /\ Len(SelectSeq(out, C17_IsAnnouncement)) = 1
            /\ out = reports \o <<Message(MsgAnnouncement, <<>>)>> \o embeds
            /\ Len(reports) + Len(embeds) = Len(split(input))

\* C18: for every listing text of /listinterestedgames and every limit up
\* to the model's ChunkLimit, the pieces sent, joined in the order sent,
\* are the text itself, no piece is longer than the limit and none is
\* empty.
RECURSIVE C18_Concat(_)
C18_Concat(pieces) ==
    IF pieces = <<>> THEN <<>> ELSE Head(pieces) \o C18_Concat(Tail(pieces))

C18_ChunksRebuildText ==
    \A m \in Members :
        \A order \in Orders(InterestedApps(m, DB)) :
            order # <<>> =>
                LET text == interested_str([i \in 1..Len(order) |-> NameOf(games, order[i])])
                    out == listinterestedgames(m, order, DB)
                IN  /\ C18_Concat([i \in 1..Len(out) |-> out[i].arg]) = text
                    /\ \A i \in 1..Len(out) :
                           /\ out[i].text = MsgListing
                           /\ Len(out[i].arg) \in 1..ChunkLimit
                    /\ \A limit \in 1..ChunkLimit :
                           /\ C18_Concat(chunks(text, limit)) = text
                           /\ \A i \in 1..Len(chunks(text, limit)) :
                                  Len(chunks(text, limit)[i]) \in 1..limit

\* A listing has just gone out in more than one piece, the first of them
\* as long as the limit allows.
C18_Witness ==
    /\ Len(sent) > 1
    /\ sent[1].text = MsgListing
    /\ Len(sent[1].arg) = ChunkLimit
    /\ sent[Len(sent)].text = MsgListing
    /\ Len(sent[Len(sent)].arg) < ChunkLimit

\* C19: a sync for a member, whatever the owned list, changes the
\* interested flag of none of the member's rows that are already there: a
\* row marked interested before the sync is marked interested after it.
C19_SyncKeepsFlags ==
    \A m \in Members, resp \in OwnedResponses :
        LET after == update_owned_games(resp, m, DB).db.userGames
        IN  \A r \in RowsOf(userGames, m) :
                /\ r \in after
                /\ \A x \in RowsOf(after, m) : x.app_id = r.app_id => x.interested = r.interested

\* A sync has just run for a member who keeps a row marked interested next
\* to one that is not.
C19_Witness ==
    /\ reply = MsgUpdated
    /\ \E r1 \in userGames, r2 \in userGames :
           r1.discord_id = r2.discord_id /\ r1.interested /\ ~r2.interested

\* C20: a step after which a UserGames row (m, a) is gone is an
\* /unlinksteam of m: no sync (not even one whose list lacks a), mark,
\* unmark or command of another member removes a row.
C20_RowsGoOnlyByUnlink ==
    [][\A r \in userGames :
           (\A x \in userGames' : ~(x.discord_id = r.discord_id /\ x.app_id = r.app_id))
               => UnlinkSteam(r.discord_id)]_vars

\* A member has just unlinked and a row of another member, marked
\* interested, is still there.
C20_Witness == reply = MsgUnlinked /\ \E r \in userGames : r.interested

\* C21: in every reachable state every UserGames row's app_id has a row in
\* Games.
C21_RelationHasGame == \A r \in userGames : \E g \in games : g.app_id = r.app_id

\* The sync of a link has just succeeded and relation rows exist for every
\* app id.
C21_Witness == reply = MsgLinkedUpdated /\ {r.app_id : r \in userGames} = AppIds

\* C22: for a linked member who has no UserGames row (the state a link
\* with a failed first sync leaves), an /updategames whose provider call
\* succeeds with the list L puts every item of L into Games and gives the
\* member a row for every item of L; the rows it creates are not
\* interested.
C22_ResyncConverges ==
    \A m \in Members, resp \in OwnedResponses :
        (IsLinked(users, m) /\ RowsOf(userGames, m) = {} /\ resp.ok) =>
            LET r == updategames(m, resp, DB)
            IN  /\ r.text = MsgUpdated
                /\ \A a \in AppsOf(resp.games) : \E g \in r.db.games : g.app_id = a
                /\ RowsOf(r.db.userGames, m)
                       = {[discord_id |-> m, app_id |-> a, interested |-> FALSE] :
                              a \in AppsOf(resp.games)}
                /\ r.db.userGames \ RowsOf(r.db.userGames, m) = userGames
                /\ r.db.users = users

\* An /updategames has just given the only linked member rows for every
\* app id, none of them interested.
C22_Witness ==
    /\ reply = MsgUpdated
    /\ Cardinality(users) = 1
    /\ Cardinality(userGames) = MaxApp
    /\ \A r \in userGames : IsLinked(users, r.discord_id) /\ ~r.interested

\* C23: for a token that is not all digits, when some Games name contains
\* the token (case-insensitively) search_steam_game returns the game of the
\* first such row in storage order and does not ask the store search; the
\* store search is asked only when no Games name contains the token.
C23_LocalMatchFirst ==
    \A game \in GameTokens, search \in SearchResponses, has_data \in BOOLEAN :
        ~isnumeric(game) =>
            LET local == {r \in games : Like(r.name, game)}
                asks == search_steam_game_asks(game, games, search)
            IN  /\ local # {} =>
                       /\ search_steam_game(game, games, search, has_data)
                              = [found |-> TRUE, app_id |-> Str(FirstAppId(local))]
                       /\ \A i \in 1..Len(asks) : asks[i] # AskSearch
                /\ (\E i \in 1..Len(asks) : asks[i] = AskSearch) => local = {}

\* C24: for a token that is not all digits and that no Games name
\* contains, search_steam_game takes the row of the store's search page
\* with the highest partial_ratio score, the earliest of the rows with that
\* score, and returns get_game_info for the id in that row's href; with no
\* row on the page it returns no game.
C24_BestSearchRow ==
    \A game \in GameTokens, search \in SearchResponses, has_data \in BOOLEAN :
        (~isnumeric(game) /\ search.ok /\ \A r \in games : ~Like(r.name, game)) =>
            LET rows == search.rows
                result == search_steam_game(game, games, search, has_data)
            IN  IF rows = <<>> THEN ~result.found
                ELSE \E n \in 1..Len(rows) :
                         /\ \A k \in 1..Len(rows) :
                                partial_ratio(game, rows[k].ds_appid)
                                    <= partial_ratio(game, rows[n].ds_appid)
                         /\ \A k \in 1..(n - 1) :
                                partial_ratio(game, rows[k].ds_appid)
                                    < partial_ratio(game, rows[n].ds_appid)
                         /\ result = get_game_info(rows[n].href[5], has_data)

\* /searchgame has just shown a game that is not in the catalog: it came
\* from the store's search page.
C24_Witness ==
    /\ sent = <<Message(MsgGameEmbed, <<MaxApp>>)>>
    /\ \A r \in games : r.app_id # MaxApp

\* C25: /removeinterest by a linked member for a game that has a Games row
\* but no UserGames row of that member answers that the game has been
\* unmarked and leaves every table as it was: no row is changed and none
\* is created.
C25_UnmarkWithoutRow ==
    \A m \in Members, game \in GameTokens :
        LET app_id == remove_resolve(game, games)
        IN  (/\ IsLinked(users, m)
             /\ \E g \in games : g.app_id = app_id
             /\ ~Owns(userGames, m, app_id)) =>
                LET r == removeinterest(m, game, DB)
                IN  r.text = MsgUnmarked /\ r.db = DB

\* The only linked member has no UserGames row, the catalog holds every
\* app id, and an /removeinterest has just answered "has been unmarked".
C25_Witness ==
    /\ reply = MsgUnmarked
    /\ Cardinality(users) = 1
    /\ userGames = {}
    /\ {g.app_id : g \in games} = AppIds

\* C26: no step of a reading command (/searchgame and /sendgamemessage
\* with their resolution of the token, /players, /listinterestedgames,
\* /sendmessage, /sendmultigamemessage) changes Users, Games or UserGames,
\* whether the command finds its game or not.
C26_ReadsLeaveTables == [][UNCHANGED <<users, games, userGames>>]_vars

\* /sendgamemessage has just shown a game that the store knows and the
\* catalog does not: the resolution succeeded and stored nothing.
C26_Witness ==
    /\ sent = <<Message(MsgGameEmbedWithMessage, <<MaxApp>>)>>
    /\ \A r \in games : r.app_id # MaxApp

\* The key of a UserGames row.
KeyOf(r) == <<r.discord_id, r.app_id>>

\* The tables `after` differ from `before` at most in the interested flag
\* of the row (m, a), which is v if the row exists.
OnlyFlagOf(before, after, m, a, v) ==
    /\ after.users = before.users
    /\ after.games = before.games
    /\ {KeyOf(r) : r \in after.userGames} = {KeyOf(r) : r \in before.userGames}
    /\ \A r \in before.userGames : KeyOf(r) # <<m, a>> => r \in after.userGames
    /\ \A r \in after.userGames : KeyOf(r) = <<m, a>> => r.interested = v

\* C27: a /markinterest that answers "Successfully marked" and a
\* /removeinterest that answers "has been unmarked", by member m for the
\* app a the token resolves to, change nothing but the interested flag of
\* the UserGames row (m, a): the other rows of m, the rows of the other
\* members, the set of row keys, Users and Games stay as they were.
C27_OnlyTheFlag ==
    \A m \in Members, game \in GameTokens :
        /\ \A search \in SearchAnswers(m, game, DB), has_data \in StoreAnswers(m, DB) :
               LET marked == markinterest(m, game, search, has_data, DB)
                   a == ToInt(mark_resolve(game, games, search, has_data).app_id)
               IN  marked.text = MsgMarked => OnlyFlagOf(DB, marked.db, m, a, TRUE)
        /\ LET unmarked == removeinterest(m, game, DB)
           IN  unmarked.text = MsgUnmarked =>
                   OnlyFlagOf(DB, unmarked.db, m, remove_resolve(game, games), FALSE)

\* A mark has just succeeded for a member who has another row that is not
\* interested, while another member has an interested row too.
C27_Witness ==
    /\ reply = MsgMarked
    /\ \E r1 \in userGames, r2 \in userGames, r3 \in userGames :
           /\ r1.discord_id = r2.discord_id /\ r1.interested /\ ~r2.interested
           /\ r3.discord_id # r1.discord_id /\ r3.interested

====
